---- MODULE Spec2Model ----
(***************************************************************************)
(* Model of the crate fraction_list_fmt_align (src/src/lib.rs).            *)
(*                                                                         *)
(* A Rust String is modelled as a sequence of one-character strings.       *)
(* Spec      : fmt_align_fractions / fmt_align_fraction_strings, one call. *)
(* SpecNorm  : normalized_fraction_part_or_none applied to a fraction part *)
(*             and then to its own result.                                 *)
(***************************************************************************)
EXTENDS Integers, Sequences, FiniteSets, TLC

VARIABLES
    entry,          \* which public function was called
    fractions,      \* argument of fmt_align_fractions
    max_precision,  \* argument of fmt_align_fractions
    strings,        \* argument of fmt_align_fraction_strings
    pc,             \* position inside the call
    fract_parts,    \* Vec<FractionNumberParts>
    max_digits_whole_part,
    max_digits_whole_part_with_sign,
    index,          \* number of entries the for_each closure has handled
    new_formatted,  \* Vec<String> being filled
    fp,             \* SpecNorm: argument of normalized_fraction_part_or_none
    nres,           \* SpecNorm: results of the successive applications
    npc             \* SpecNorm: position

vars == <<entry, fractions, max_precision, strings, pc, fract_parts,
          max_digits_whole_part, max_digits_whole_part_with_sign, index,
          new_formatted, fp, nres, npc>>

alignVars == <<entry, fractions, max_precision, strings, pc, fract_parts,
               max_digits_whole_part, max_digits_whole_part_with_sign, index,
               new_formatted>>

normVars == <<fp, nres, npc>>

(***************************************************************************)
(* Bounds of the model.                                                    *)
(***************************************************************************)
MaxList == 2
MaxWholeLen == 2
MaxFracLen == 3
MaxPrecision == 1

(***************************************************************************)
(* Helpers on sequences.                                                   *)
(***************************************************************************)
Digits == {"0", "1", "2", "3", "4", "5", "6", "7", "8", "9"}

IsDigit(c) == c \in Digits

RECURSIVE Repeat(_, _)
Repeat(c, n) == IF n <= 0 THEN <<>> ELSE <<c>> \o Repeat(c, n - 1)

RECURSIVE SeqsUpTo(_, _)
\* all sequences over S of length 0..n
SeqsUpTo(S, n) ==
    IF n = 0 THEN {<<>>}
    ELSE LET prev == SeqsUpTo(S, n - 1)
         IN  prev \cup {Append(p, x) : p \in {q \in prev : Len(q) = n - 1}, x \in S}

SetMax(S) == CHOOSE m \in S : \A x \in S : x <= m

None == [some |-> FALSE, val |-> <<>>]
Some(x) == [some |-> TRUE, val |-> x]

(***************************************************************************)
(* fraction_part_count_zeroes: the loop visits every index, from the back, *)
(* and increments the counter at every '0' it sees.                        *)
(***************************************************************************)
RECURSIVE count_zeroes_loop(_, _, _)
count_zeroes_loop(chars, i, zeroes) ==
    IF i >= Len(chars) THEN zeroes
    ELSE LET j == Len(chars) - 1 - i      \* go backwards (0-based index)
         IN  count_zeroes_loop(chars, i + 1,
                               IF chars[j + 1] = "0" THEN zeroes + 1 ELSE zeroes)

fraction_part_count_zeroes(fraction_part) ==
    count_zeroes_loop(fraction_part, 0, 0)

fraction_part_remove_zeroes(fraction_part) ==
    LET zeroes == fraction_part_count_zeroes(fraction_part)
    IN  SubSeq(fraction_part, 1, Len(fraction_part) - zeroes)

normalized_fraction_part_or_none(fpo) ==
    LET mapped == IF fpo.some THEN Some(fraction_part_remove_zeroes(fpo.val))
                  ELSE None
    IN  IF mapped.some /\ mapped.val = <<>> THEN None ELSE mapped

(***************************************************************************)
(* The regex ^(?P<sign>-)?(?P<whole_part>[0-9]+)(.(?P<fraction_part>[0-9]+))?$ *)
(* with leftmost-first semantics: the sign is taken when present, the      *)
(* whole part is as long as a match allows, the group is taken when it can *)
(* be.  The separator is the regex '.', i.e. any character but a newline.  *)
(***************************************************************************)
RECURSIVE DigitRunLen(_, _)
\* number of consecutive digits of s starting at position from (1-based)
DigitRunLen(s, from) ==
    IF from > Len(s) \/ ~IsDigit(s[from]) THEN 0
    ELSE 1 + DigitRunLen(s, from + 1)

RegexAnyChar(c) == c # "\n"

NoMatch == [matched |-> FALSE]

\* the match with a whole part of w digits starting at position start
RegexMatchAt(s, start, w) ==
    LET sep  == start + w
        frun == DigitRunLen(s, sep + 1)
    IN  IF sep <= Len(s) /\ RegexAnyChar(s[sep]) /\ frun >= 1
           /\ sep + frun = Len(s)
        THEN [matched |-> TRUE, sign |-> start = 2,
              whole_part |-> SubSeq(s, start, sep - 1),
              fraction_part |-> Some(SubSeq(s, sep + 1, Len(s)))]
        ELSE IF sep = Len(s) + 1
        THEN [matched |-> TRUE, sign |-> start = 2,
              whole_part |-> SubSeq(s, start, sep - 1),
              fraction_part |-> None]
        ELSE NoMatch

regex_captures(s) ==
    LET start == IF Len(s) >= 1 /\ s[1] = "-" THEN 2 ELSE 1
        run   == DigitRunLen(s, start)
        ws    == {w \in 1..run : RegexMatchAt(s, start, w).matched}
    IN  IF ws = {} THEN NoMatch ELSE RegexMatchAt(s, start, SetMax(ws))

\* captures(..).unwrap() panics when the regex does not match
get_fraction_number_parts_panics(s) == ~regex_captures(s).matched

get_fraction_number_parts(s) ==
    LET captures == regex_captures(s)
    IN  [has_sign |-> captures.sign,
         whole_part |-> captures.whole_part,
         fraction_part |-> normalized_fraction_part_or_none(captures.fraction_part)]

(***************************************************************************)
(* FractionNumber::format: format!("{:.1$}", val, precision).  A finite    *)
(* value is a sign and a number of halves (0.5, 1.5, 10.0, ...), which f32 *)
(* and f64 both hold exactly; the fixed-precision formatting prints        *)
(* exactly `precision` fraction digits, rounding half to even.             *)
(***************************************************************************)
RECURSIVE NatToDigits(_)
NatToDigits(n) ==
    LET d == <<"0", "1", "2", "3", "4", "5", "6", "7", "8", "9">>[(n % 10) + 1]
    IN  IF n < 10 THEN <<d>> ELSE Append(NatToDigits(n \div 10), d)

FormatFinite(neg, halves, precision) ==
    LET floor == halves \div 2
        odd   == halves % 2 = 1
        sign  == IF neg THEN <<"-">> ELSE <<>>
    IN  IF precision = 0
        THEN sign \o NatToDigits(IF odd /\ floor % 2 = 1 THEN floor + 1 ELSE floor)
        ELSE sign \o NatToDigits(floor) \o <<".">>
             \o <<IF odd THEN "5" ELSE "0">> \o Repeat("0", precision - 1)

format(fr, precision) ==
    CASE fr.class = "nan"    -> <<"N", "a", "N">>
      [] fr.class = "inf"    -> IF fr.neg THEN <<"-", "i", "n", "f">>
                                ELSE <<"i", "n", "f">>
      [] fr.class = "finite" -> FormatFinite(fr.neg, fr.halves, precision)

(***************************************************************************)
(* fmt_align_fraction_strings: the width computation and the closure body. *)
(***************************************************************************)
MaxDigitsWholePart(parts) ==
    SetMax({Len(parts[i].whole_part) : i \in 1..Len(parts)})

\* mutant: the sign of any entry widens the column (the filter is forgotten)
AnyEntryWithSign(parts, maxDigits) ==
    \E i \in 1..Len(parts) : parts[i].has_sign

MaxDigitsWholePartWithSign(parts, maxDigits) ==
    \E i \in 1..Len(parts) :
        Len(parts[i].whole_part) = maxDigits /\ parts[i].has_sign

\* mutant: the column of the sign is never reserved
max_len_whole_part_without_sign == max_digits_whole_part

max_len_whole_part_including_sign ==
    IF max_digits_whole_part_with_sign
    THEN max_digits_whole_part + 1
    ELSE max_digits_whole_part

\* mutant: the sign is not counted
current_len_ignoring_sign(f) == Len(f.whole_part)

current_len(f) == Len(f.whole_part) + (IF f.has_sign THEN 1 ELSE 0)

\* usize subtraction: a negative difference does not exist
SpacesUnderflow(f) == max_len_whole_part_including_sign < current_len(f)

spaces(f) == max_len_whole_part_including_sign - current_len(f)

regular_format(f) ==
    LET whole == f.whole_part
        withFraction == IF f.fraction_part.some
                        THEN whole \o <<".">> \o f.fraction_part.val
                        ELSE whole
    IN  IF f.has_sign THEN <<"-">> \o withFraction ELSE withFraction

spaces_fmt(n) == Repeat(" ", n)

\* mutant: an entry without fraction part gets a space where the point would be
FormattedEntryPointPadded(f) ==
    spaces_fmt(spaces(f)) \o regular_format(f)
        \o (IF f.fraction_part.some THEN <<>> ELSE <<" ">>)

FormattedEntry(f) == spaces_fmt(spaces(f)) \o regular_format(f)

(***************************************************************************)
(* Inputs.                                                                 *)
(***************************************************************************)
Wholes == {<<"1">> \o Repeat("0", k) : k \in 0..(MaxWholeLen - 1)}

FractionInputs == {<<"5">>, <<"5", "0">>, <<"0", "5">>, <<"0">>, <<"5", "0", "5">>}

WellFormed ==
    {sg \o w \o tl : sg \in {<<>>, <<"-">>}, w \in Wholes,
                     tl \in {<<>>} \cup {<<".">> \o f : f \in FractionInputs}}

Malformed ==
    {<<"1", "x", "5">>, <<"1", "-", "5">>, <<"1", ".", "5", ".", "5">>,
     <<"1", ".">>, <<>>}

\* the list of examples/example.rs
Scenario1 ==
    << <<"-", "4", "2">>, <<"0", ".", "3", "2", "1", "4">>,
       <<"1", "0", "0", "0">>, <<"-", "1", "0", "0", "0", ".", "2">>,
       <<"2", ".", "0", "0", "0", "0", "0">> >>

\* the lists of the example and of the tests, and two more
Scenarios ==
    {Scenario1,
     << <<"1", ".", "0", "0", "0", "0", "0", "0", "0", "0", "0">> >>,
     << <<"1", "2", "3">> >>,
     << <<"1", "2", ".", "3", ".", "4">> >>,
     << <<"3", ".", "1", "0", "2">> >>}

StringLists ==
    UNION {[1..n -> WellFormed \cup Malformed] : n \in 0..MaxList} \cup Scenarios

FractionNumbers ==
    {[tag |-> t, class |-> "nan", neg |-> FALSE, halves |-> 0] : t \in {"F32", "F64"}}
    \cup {[tag |-> "F64", class |-> "inf", neg |-> n, halves |-> 0] : n \in BOOLEAN}
    \cup {[tag |-> t, class |-> "finite", neg |-> n, halves |-> h] :
            t \in {"F32", "F64"}, n \in BOOLEAN, h \in {1, 3, 20}}

FractionLists == UNION {[1..n -> FractionNumbers] : n \in 0..MaxList}

AlignIdle ==
    /\ entry = "none" /\ fractions = <<>> /\ max_precision = 0 /\ strings = <<>>
    /\ pc = "idle" /\ fract_parts = <<>> /\ max_digits_whole_part = 0
    /\ max_digits_whole_part_with_sign = FALSE /\ index = 0 /\ new_formatted = <<>>

NormIdle == fp = None /\ nres = <<>> /\ npc = "idle"

Init ==
    /\ NormIdle
    /\ fract_parts = <<>> /\ max_digits_whole_part = 0
    /\ max_digits_whole_part_with_sign = FALSE /\ index = 0 /\ new_formatted = <<>>
    /\ \/ /\ entry = "fmt_align_fraction_strings"
          /\ strings \in StringLists
          /\ fractions = <<>> /\ max_precision = 0
          /\ pc = "parse"
       \/ /\ entry = "fmt_align_fractions"
          /\ fractions \in FractionLists
          /\ max_precision \in 0..MaxPrecision
          /\ strings = <<>>
          /\ pc = "format"

(***************************************************************************)
(* Actions of one call.                                                    *)
(***************************************************************************)
\* lib.rs 114-124: format every value, then call fmt_align_fraction_strings
FmtAlignFractions ==
    /\ pc = "format"
    /\ strings' = [i \in 1..Len(fractions) |-> format(fractions[i], max_precision)]
    /\ pc' = "parse"
    /\ UNCHANGED <<entry, fractions, max_precision, fract_parts,
                   max_digits_whole_part, max_digits_whole_part_with_sign,
                   index, new_formatted>>
    /\ UNCHANGED normVars

\* lib.rs 147-153: every string is parsed; the vector of empty strings is made
ParseStrings ==
    /\ pc = "parse"
    /\ \A i \in 1..Len(strings) : ~get_fraction_number_parts_panics(strings[i])
    /\ fract_parts' = [i \in 1..Len(strings) |-> get_fraction_number_parts(strings[i])]
    /\ new_formatted' = [i \in 1..Len(strings) |-> <<>>]
    /\ pc' = "widths"
    /\ UNCHANGED <<entry, fractions, max_precision, strings,
                   max_digits_whole_part, max_digits_whole_part_with_sign, index>>
    /\ UNCHANGED normVars

\* lib.rs 60: captures(..).unwrap() on a string the regex does not match
ParsePanic ==
    /\ pc = "parse"
    /\ \E i \in 1..Len(strings) : get_fraction_number_parts_panics(strings[i])
    /\ pc' = "panic"
    /\ UNCHANGED <<entry, fractions, max_precision, strings, fract_parts,
                   max_digits_whole_part, max_digits_whole_part_with_sign,
                   index, new_formatted>>
    /\ UNCHANGED normVars

\* lib.rs 155-163
ComputeWidths ==
    /\ pc = "widths"
    /\ Len(fract_parts) > 0
    /\ max_digits_whole_part' = MaxDigitsWholePart(fract_parts)
    /\ max_digits_whole_part_with_sign' =
           MaxDigitsWholePartWithSign(fract_parts, MaxDigitsWholePart(fract_parts))
    /\ pc' = "for_each"
    /\ UNCHANGED <<entry, fractions, max_precision, strings, fract_parts,
                   index, new_formatted>>
    /\ UNCHANGED normVars

\* lib.rs 159: max() of an empty iterator is None, unwrap() panics
EmptyPanic ==
    /\ pc = "widths"
    /\ Len(fract_parts) = 0
    /\ pc' = "panic"
    /\ UNCHANGED <<entry, fractions, max_precision, strings, fract_parts,
                   max_digits_whole_part, max_digits_whole_part_with_sign,
                   index, new_formatted>>
    /\ UNCHANGED normVars

\* lib.rs 165-190: one run of the closure
FormatEntry ==
    /\ pc = "for_each"
    /\ index < Len(fract_parts)
    /\ LET f == fract_parts[index + 1]
       IN  IF SpacesUnderflow(f)
           THEN /\ pc' = "overflow"
                /\ UNCHANGED <<index, new_formatted>>
           ELSE /\ new_formatted' = [new_formatted EXCEPT ![index + 1] = FormattedEntry(f)]
                /\ index' = index + 1
                /\ pc' = pc
    /\ UNCHANGED <<entry, fractions, max_precision, strings, fract_parts,
                   max_digits_whole_part, max_digits_whole_part_with_sign>>
    /\ UNCHANGED normVars

\* lib.rs 192
Return ==
    /\ pc = "for_each"
    /\ index = Len(fract_parts)
    /\ pc' = "done"
    /\ UNCHANGED <<entry, fractions, max_precision, strings, fract_parts,
                   max_digits_whole_part, max_digits_whole_part_with_sign,
                   index, new_formatted>>
    /\ UNCHANGED normVars

Next ==
    \/ FmtAlignFractions
    \/ ParseStrings
    \/ ParsePanic
    \/ ComputeWidths
    \/ EmptyPanic
    \/ FormatEntry
    \/ Return

Spec == Init /\ [][Next]_vars

(***************************************************************************)
(* SpecNorm: normalized_fraction_part_or_none on a digit string, and then  *)
(* on what it returned.                                                    *)
(***************************************************************************)
NormDigits == {"0", "1", "2"}

NormInputs == {None} \cup {Some(s) : s \in SeqsUpTo(NormDigits, MaxFracLen) \ {<<>>}}

InitNorm ==
    /\ AlignIdle
    /\ fp \in NormInputs
    /\ nres = <<>>
    /\ npc = "call"

Normalize ==
    /\ npc = "call"
    /\ nres' = <<normalized_fraction_part_or_none(fp)>>
    /\ npc' = "again"
    /\ UNCHANGED fp
    /\ UNCHANGED alignVars

NormalizeAgain ==
    /\ npc = "again"
    /\ nres' = Append(nres, normalized_fraction_part_or_none(nres[1]))
    /\ npc' = "done"
    /\ UNCHANGED fp
    /\ UNCHANGED alignVars

NextNorm == Normalize \/ NormalizeAgain

SpecNorm == InitNorm /\ [][NextNorm]_vars

(***************************************************************************)
(* What the claims speak of, read off the input and output strings.        *)
(***************************************************************************)
InputHasSign(s) == Len(s) >= 1 /\ s[1] = "-"

InputWholeStart(s) == IF InputHasSign(s) THEN 2 ELSE 1

InputWholeLen(s) == DigitRunLen(s, InputWholeStart(s))

InputWhole(s) == SubSeq(s, InputWholeStart(s), InputWholeStart(s) + InputWholeLen(s) - 1)

\* the raw fraction digits: what follows the separator
InputRawFraction(s) == SubSeq(s, InputWholeStart(s) + InputWholeLen(s) + 1, Len(s))

InputHasFraction(s) == InputWholeStart(s) + InputWholeLen(s) <= Len(s)

\* the grammar  -? digit+ (. digit+)?  with a literal point
MatchesGrammar(s) ==
    LET sep == InputWholeStart(s) + InputWholeLen(s)
    IN  /\ InputWholeLen(s) >= 1
        /\ \/ sep = Len(s) + 1
           \/ /\ sep < Len(s)
              /\ s[sep] = "."
              /\ DigitRunLen(s, sep + 1) = Len(s) - sep

RECURSIVE TrimTrailingZeroes(_)
\* the longest prefix that does not end in '0'
TrimTrailingZeroes(s) ==
    IF s = <<>> \/ s[Len(s)] # "0" THEN s
    ELSE TrimTrailingZeroes(SubSeq(s, 1, Len(s) - 1))

ExpectedFraction(s) ==
    IF ~InputHasFraction(s) \/ TrimTrailingZeroes(InputRawFraction(s)) = <<>>
    THEN None
    ELSE Some(TrimTrailingZeroes(InputRawFraction(s)))

ExpectedCore(s) ==
    (IF InputHasSign(s) THEN <<"-">> ELSE <<>>) \o InputWhole(s)
        \o (IF ExpectedFraction(s).some THEN <<".">> \o ExpectedFraction(s).val ELSE <<>>)

AllZeroes(s) == \A k \in 1..Len(s) : s[k] = "0"

NotSpace(c) == c # " "

WithoutSpaces(o) == SelectSeq(o, NotSpace)

RECURSIVE LeadingSpaces(_)
LeadingSpaces(o) ==
    IF o = <<>> \/ o[1] # " " THEN 0 ELSE 1 + LeadingSpaces(Tail(o))

RECURSIVE PointColumn(_)
\* number of characters before the decimal point, or before the end
PointColumn(o) ==
    IF o = <<>> \/ o[1] = "." THEN 0 ELSE 1 + PointColumn(Tail(o))

\* ".0", ".00", ... at the end
EndsInPointZeroes(o) ==
    \E k \in 1..(Len(o) - 1) : o[k] = "." /\ AllZeroes(SubSeq(o, k + 1, Len(o)))

MaxWholeLenOf(ss) == SetMax({InputWholeLen(ss[i]) : i \in 1..Len(ss)})

SignAtMaxWidth(ss) ==
    \E i \in 1..Len(ss) : InputWholeLen(ss[i]) = MaxWholeLenOf(ss) /\ InputHasSign(ss[i])

ReservedWidth(ss) == MaxWholeLenOf(ss) + (IF SignAtMaxWidth(ss) THEN 1 ELSE 0)

SignedLen(s) == InputWholeLen(s) + (IF InputHasSign(s) THEN 1 ELSE 0)

AllValid == \A i \in 1..Len(strings) : MatchesGrammar(strings[i])

Parsed == pc \in {"widths", "for_each", "done"}

Done == pc = "done"

Scenario1Padded ==
    << <<" ", " ", "-", "4", "2", " ", " ", " ", " ", " ">>,
       <<" ", " ", " ", " ", "0", ".", "3", "2", "1", "4">>,
       <<" ", "1", "0", "0", "0", " ", " ", " ", " ", " ">>,
       <<"-", "1", "0", "0", "0", ".", "2", " ", " ", " ">>,
       <<" ", " ", " ", " ", "2", " ", " ", " ", " ", " ">> >>

Scenario1Unpadded ==
    << <<" ", " ", "-", "4", "2">>,
       <<" ", " ", " ", " ", "0", ".", "3", "2", "1", "4">>,
       <<" ", "1", "0", "0", "0">>,
       <<"-", "1", "0", "0", "0", ".", "2">>,
       <<" ", " ", " ", " ", "2">> >>

(***************************************************************************)
(* The claims.                                                             *)
(***************************************************************************)

\* C1: for every valid input, the fraction part that parsing produces is the
\* raw fraction digits with exactly the trailing run of '0' removed (the
\* longest prefix not ending in '0', absent when that prefix is empty); zero
\* digits that are not trailing are kept and no other digit is dropped.
C1_OnlyTrailingZeroesRemoved ==
    Parsed =>
        \A i \in 1..Len(strings) :
            MatchesGrammar(strings[i]) =>
                fract_parts[i].fraction_part = ExpectedFraction(strings[i])

\* C2: a non-empty call is rejected exactly when at least one input string
\* does not match the grammar -? digit+ (. digit+)? with a literal point, and
\* a rejected call returns nothing.
C2_RejectsExactlyMalformed ==
    (entry = "fmt_align_fraction_strings" /\ Len(strings) > 0 /\ pc # "parse") =>
        /\ (pc = "panic") <=> ~AllValid
        /\ ~AllValid => ~Done

\* C3: in the strings produced so far, the number of characters before the
\* decimal point (or before the end, when there is no point) is the same.
C3_ColumnAlignment ==
    pc \in {"for_each", "done"} =>
        \A i, j \in 1..index :
            PointColumn(new_formatted[i]) = PointColumn(new_formatted[j])

C3_Witness ==
    /\ Done
    /\ \E i, j, k \in 1..Len(strings) :
          /\ InputWholeLen(strings[i]) < InputWholeLen(strings[j])
          /\ InputHasSign(strings[i]) /\ ~InputHasSign(strings[j])
          /\ fract_parts[k].fraction_part.some
          /\ AllValid

\* C4: the reserved width is maxWholeLen + 1 if an entry with maxWholeLen
\* whole-part digits carries a sign and maxWholeLen otherwise, and every
\* output string starts with exactly reservedWidth - (len(whole_part) + sign)
\* spaces.
C4_SignWidthAndLeftPadding ==
    Done =>
        /\ max_len_whole_part_including_sign = ReservedWidth(strings)
        /\ \A i \in 1..Len(strings) :
              LeadingSpaces(new_formatted[i])
                  = ReservedWidth(strings) - SignedLen(strings[i])

\* a sign on a shorter entry, none on the entries of maximum width
C4_Witness ==
    /\ Done /\ AllValid
    /\ ~SignAtMaxWidth(strings)
    /\ \E i \in 1..Len(strings) :
          /\ InputHasSign(strings[i])
          /\ InputWholeLen(strings[i]) < MaxWholeLenOf(strings)
          /\ LeadingSpaces(new_formatted[i]) = MaxWholeLenOf(strings) - SignedLen(strings[i])

\* C5: for valid inputs the output has as many elements as the input, and
\* element i without its padding spaces is '-' (if input i has a sign), the
\* whole-part digits of input i, and '.' with the fraction digits of input i
\* trimmed of trailing zeroes (if any are left).
C5_OutputIsRenderingOfInput ==
    (Done /\ AllValid) =>
        /\ Len(new_formatted) = Len(strings)
        /\ \A i \in 1..Len(strings) :
              WithoutSpaces(new_formatted[i]) = ExpectedCore(strings[i])

\* C6 as stated: all returned strings have the same total length, and
\* scenario 1 yields the right-padded block.
C6_EqualTotalLength ==
    Done =>
        /\ \A i, j \in 1..Len(new_formatted) :
              Len(new_formatted[i]) = Len(new_formatted[j])
        /\ strings = Scenario1 => new_formatted = Scenario1Padded

\* C6 amended: no right padding is applied: no returned string ends in a
\* space, the length of each is the reserved width plus, when the entry has
\* a fraction part, 1 + the length of that part, and scenario 1 yields the
\* strings without trailing spaces.
C6_NoTrailingPadding ==
    Done =>
        /\ \A i \in 1..Len(new_formatted) :
              /\ new_formatted[i][Len(new_formatted[i])] # " "
              /\ Len(new_formatted[i])
                    = ReservedWidth(strings)
                      + (IF fract_parts[i].fraction_part.some
                         THEN 1 + Len(fract_parts[i].fraction_part.val) ELSE 0)
        /\ strings = Scenario1 => new_formatted = Scenario1Unpadded

C6_Witness ==
    /\ Done
    /\ strings = Scenario1
    /\ \E i, j \in 1..Len(new_formatted) :
          Len(new_formatted[i]) # Len(new_formatted[j])

\* C7: a call of fmt_align_fractions with a NaN or an infinity in the list
\* raises no error, and the token of a NaN appears literally in the output.
HasSpecial == \E i \in 1..Len(fractions) : fractions[i].class # "finite"

C7_SpecialValuesAreNotErrors ==
    (entry = "fmt_align_fractions" /\ HasSpecial) =>
        /\ pc # "panic"
        /\ Done => \A i \in 1..Len(fractions) :
                      fractions[i].class = "nan" =>
                          WithoutSpaces(new_formatted[i]) = <<"N", "a", "N">>

\* C8: the fraction part of a valid input is absent or a non-empty digit
\* string that is not all zeroes, and no output ends in ".0", ".00", ...
C8_FractionNeverAllZeroes ==
    /\ Parsed =>
          \A i \in 1..Len(strings) :
              (MatchesGrammar(strings[i]) /\ fract_parts[i].fraction_part.some) =>
                  /\ fract_parts[i].fraction_part.val # <<>>
                  /\ ~AllZeroes(fract_parts[i].fraction_part.val)
    /\ (Done /\ AllValid) =>
          \A i \in 1..Len(new_formatted) : ~EndsInPointZeroes(new_formatted[i])

\* C9: normalizing the result of a normalization changes nothing, and a
\* fraction part that does not end in '0' is returned unchanged.
C9_NormalizationIdempotent ==
    /\ npc = "done" => nres[2] = nres[1]
    /\ (npc \in {"again", "done"} /\ fp.some /\ fp.val[Len(fp.val)] # "0") =>
          nres[1] = fp

\* C10: the subtraction max_len_whole_part_including_sign - current_len
\* never underflows, and at least one returned string has no leading space.
C10_NoUnderflowMinimalPadding ==
    /\ pc # "overflow"
    /\ pc = "for_each" =>
          \A i \in 1..Len(fract_parts) : ~SpacesUnderflow(fract_parts[i])
    /\ Done => \E i \in 1..Len(new_formatted) : LeadingSpaces(new_formatted[i]) = 0

\* a signed shorter entry next to an unsigned entry of maximum width
C10_Witness ==
    /\ Done /\ AllValid
    /\ \E i, j \in 1..Len(strings) :
          /\ InputHasSign(strings[i]) /\ ~InputHasSign(strings[j])
          /\ SignedLen(strings[i]) = SignedLen(strings[j])
          /\ InputWholeLen(strings[j]) = MaxWholeLenOf(strings)
          /\ LeadingSpaces(new_formatted[i]) = 0
          /\ LeadingSpaces(new_formatted[j]) = 0

====
